---- MODULE Spec2Model ----
(***************************************************************************)
(* Model of first_first_nfts_rarity.py: the sequential pipeline            *)
(*   connect_to_contract -> get_claimed_token_ids -> sanity check ->       *)
(*   organize_text_data -> statistics -> get_rarity (x3) -> write_to_file  *)
(* together with its two pure parts, the tokenizer of organize_text_data   *)
(* and get_rarity, which are also exercised on their own inputs.           *)
(*                                                                         *)
(* A text is a sequence of one-character strings, so that the regular      *)
(* expression, lower(), slicing, split() and str() act on characters.      *)
(***************************************************************************)
EXTENDS Integers, Sequences, FiniteSets, TLC

VARIABLES
    \* ---- the pipeline (__main__) ----
    pc,                 \* position of the main program
    MAX_SUPPLY,         \* configuration constant, fixed for a run
    LIMIT,              \* configuration constant, fixed for a run
    contract,           \* getString of the contract, as far as the run has
                        \* read it: identifier -> raw text
    offset,             \* get_claimed_token_ids: offset
    claimed,            \* get_claimed_token_ids: claimed / claimed_token_ids
    requests,           \* history: offsets of the page requests sent, in order
    response,           \* get_claimed_token_ids: the identifiers of the page
                        \* received last (response.json()['assets'])
    query_progress_count, \* organize_text_data: index of the enumerate() loop
    fetched,            \* history: identifiers passed to getString, in order
    output_words,       \* list of token lists; the flat word list after return
    output_total_word_counts,
    output_complete_texts,
    output_word_to_token_id,
    output_total_word_count_to_token_id,
    output_complete_text_to_token_id,
    words_total,        \* len(words) passed as total to get_rarity
    rarity_words,       \* get_rarity(words, ...)
    rarity_counts,      \* get_rarity(total_word_counts, ...)
    rarity_texts,       \* get_rarity(complete_texts, ...)
    files,              \* names of the output files written, in order
    exit_cause,         \* why the process terminated early ("" if it did not)
    \* ---- the tokenizer on its own ----
    tok_pc, tok_text, tok_out,
    \* ---- get_rarity on its own ----
    rar_pc, rar_data, rar_mapping, rar_total, rar_out

pipeVars == <<pc, MAX_SUPPLY, LIMIT, contract, offset, claimed, requests, response,
              query_progress_count, fetched, output_words,
              output_total_word_counts, output_complete_texts,
              output_word_to_token_id, output_total_word_count_to_token_id,
              output_complete_text_to_token_id, words_total, rarity_words,
              rarity_counts, rarity_texts, files, exit_cause>>

tokVars == <<tok_pc, tok_text, tok_out>>

rarVars == <<rar_pc, rar_data, rar_mapping, rar_total, rar_out>>

vars == <<pipeVars, tokVars, rarVars>>

----------------------------------------------------------------------------
(* Bounds of the model *)

MaxSupply == 3      \* MAX_SUPPLY ranges over 1..MaxSupply
MaxLimit == 2       \* LIMIT ranges over 1..MaxLimit
MaxTokLen == 3      \* tokenizer inputs: all texts up to this length
MaxData == 4        \* get_rarity inputs: data up to this length
MaxTotal == 6       \* get_rarity inputs: total in 0..MaxTotal

----------------------------------------------------------------------------
(* Characters *)

\* The printable ASCII characters, code 32 to 126, in code order (the
\* character of code 96 is written "BACKTICK").
Ascii ==
    <<" ", "!", "\"", "#", "$", "%", "&", "'", "(", ")", "*", "+", ",", "-",
      ".", "/", "0", "1", "2", "3", "4", "5", "6", "7", "8", "9", ":", ";",
      "<", "=", ">", "?", "@", "A", "B", "C", "D", "E", "F", "G", "H", "I",
      "J", "K", "L", "M", "N", "O", "P", "Q", "R", "S", "T", "U", "V", "W",
      "X", "Y", "Z", "[", "\\", "]", "^", "_", "BACKTICK", "a", "b", "c", "d", "e",
      "f", "g", "h", "i", "j", "k", "l", "m", "n", "o", "p", "q", "r", "s",
      "t", "u", "v", "w", "x", "y", "z", "{", "|", "}", "~">>

AsciiCode == [c \in {Ascii[i] : i \in 1..Len(Ascii)} |->
                 31 + (CHOOSE i \in 1..Len(Ascii) : Ascii[i] = c)]

Ord(c) == AsciiCode[c]

Chr(n) == Ascii[n - 31]

\* str.lower() on one ASCII character
LowerChar(c) ==
    LET o == Ord(c) IN IF o >= Ord("A") /\ o <= Ord("Z") THEN Chr(o + 32) ELSE c

\* text.lower()
Lower(text) == [i \in 1..Len(text) |-> LowerChar(text[i])]

\* text[:len(text) - 1]; the empty text stays empty
DropLast(text) == IF Len(text) = 0 THEN <<>> ELSE SubSeq(text, 1, Len(text) - 1)

----------------------------------------------------------------------------
(* The tokenizer: re.sub(REGEX, ' ', text), split(' '), drop ''            *)

\* REGEX = '[^0-9a-zA-Z%-\\.]+': the negated class holds the ranges
\* 0-9, a-z, A-Z and %-. (the '-' between '%' and '\.' makes a range).
REGEX ==
    {<<Ord("0"), Ord("9")>>, <<Ord("a"), Ord("z")>>, <<Ord("A"), Ord("Z")>>,
     <<Ord("%"), Ord(".")>>}

\* c is in the class that the negated class excludes, i.e. c is kept
InClass(c) == LET o == Ord(c) IN \E r \in REGEX : r[1] <= o /\ o <= r[2]

\* re.sub(REGEX, ' ', text): every maximal run of characters that are not
\* in the class becomes one ' '.
RECURSIVE ReSubFrom(_, _, _)
ReSubFrom(text, i, inRun) ==
    IF i > Len(text) THEN <<>>
    ELSE IF InClass(text[i]) THEN <<text[i]>> \o ReSubFrom(text, i + 1, FALSE)
    ELSE IF inRun THEN ReSubFrom(text, i + 1, TRUE)
    ELSE <<" ">> \o ReSubFrom(text, i + 1, TRUE)

ReSub(text) == ReSubFrom(text, 1, FALSE)

\* text.split(' '): the fragments between single spaces, empty ones included
RECURSIVE SplitFrom(_, _, _)
SplitFrom(text, i, cur) ==
    IF i > Len(text) THEN <<cur>>
    ELSE IF text[i] = " " THEN <<cur>> \o SplitFrom(text, i + 1, <<>>)
    ELSE SplitFrom(text, i + 1, Append(cur, text[i]))

Split(text) == SplitFrom(text, 1, <<>>)

\* [item for item in text if item != '']
DropEmpty(frags) == SelectSeq(frags, LAMBDA f : f # <<>>)

Tokenize(text) == DropEmpty(Split(ReSub(text)))

----------------------------------------------------------------------------
(* defaultdict(lambda: []) as a function with a finite domain              *)

EmptyMap == [k \in {} |-> <<>>]

\* mapping[key]: the list under key, the factory's [] when key is missing
Get(mapping, key) == IF key \in DOMAIN mapping THEN mapping[key] ELSE <<>>

\* MapAppend with one list shared by all keys (a factory that returns the
\* same list object each time)
MapAppendShared(mapping, key, token_id) ==
    LET shared == IF DOMAIN mapping = {} THEN <<>>
                  ELSE mapping[CHOOSE k \in DOMAIN mapping : TRUE]
    IN  [k \in DOMAIN mapping \cup {key} |-> Append(shared, token_id)]

\* mapping[key].append(token_id)
MapAppend(mapping, key, token_id) ==
    [k \in DOMAIN mapping \cup {key} |->
        IF k = key THEN Append(Get(mapping, k), token_id) ELSE mapping[k]]

\* a read of mapping[key] stores the factory's [] under a missing key
MapTouch(mapping, keys) ==
    [k \in DOMAIN mapping \cup keys |-> Get(mapping, k)]

----------------------------------------------------------------------------
(* get_rarity                                                              *)

HUNDRED == 100

ROUND_DIGITS == 2

\* The keys of Counter(data), in the order of their first occurrence
RECURSIVE CounterKeysFrom(_, _, _)
CounterKeysFrom(data, i, seen) ==
    IF i > Len(data) THEN seen
    ELSE IF \E j \in 1..Len(seen) : seen[j] = data[i]
         THEN CounterKeysFrom(data, i + 1, seen)
         ELSE CounterKeysFrom(data, i + 1, Append(seen, data[i]))

CounterKeys(data) == CounterKeysFrom(data, 1, <<>>)

\* Counter(data)[key]
RECURSIVE CounterValueFrom(_, _, _)
CounterValueFrom(data, i, key) ==
    IF i > Len(data) THEN 0
    ELSE (IF data[i] = key THEN 1 ELSE 0) + CounterValueFrom(data, i + 1, key)

CounterValue(data, key) == CounterValueFrom(data, 1, key)

RECURSIVE Pow10(_)
Pow10(n) == IF n = 0 THEN 1 ELSE 10 * Pow10(n - 1)

\* Round that truncates instead of rounding to the nearest
RoundDown(value, total) == (value * HUNDRED * Pow10(ROUND_DIGITS)) \div total

\* round((value / total) * HUNDRED, ROUND_DIGITS), as a number of
\* 10^-ROUND_DIGITS units: the nearest one, the even one on a tie.  The
\* binary64 quotient agrees with the exact one whenever total is not a
\* multiple of 32 (no quotient then lies on a tie), which covers every total
\* of the model.
Round(value, total) ==
    LET n == value * HUNDRED * Pow10(ROUND_DIGITS)
        q == n \div total
        r == n % total
    IN  IF 2 * r > total THEN q + 1
        ELSE IF 2 * r < total THEN q
        ELSE IF q % 2 = 0 THEN q ELSE q + 1

Digit(d) == Chr(Ord("0") + d)

\* str() of a natural number
RECURSIVE StrInt(_)
StrInt(n) == IF n < 10 THEN <<Digit(n)>> ELSE StrInt(n \div 10) \o <<Digit(n % 10)>>

\* str() of a float that is h hundredths: the shortest decimal text, with
\* at least one digit after the point ('50.0', '66.67', '12.5')
StrFloat(h) ==
    LET ip == h \div 100
        fp == h % 100
    IN  StrInt(ip) \o <<".">> \o
        (IF fp % 10 = 0 THEN <<Digit(fp \div 10)>>
                         ELSE <<Digit(fp \div 10), Digit(fp % 10)>>)

\* rarity[key] = str(round(...)) + '%'
RarityText(value, total) == StrFloat(Round(value, total)) \o <<"%">>

\* (key, value, rarity[key], mapping[key])
Record(data, mapping, total, key) ==
    [key    |-> key,
     count  |-> CounterValue(data, key),
     rarity |-> RarityText(CounterValue(data, key), total),
     ids    |-> Get(mapping, key)]

\* InsertByCount that puts rec before the records of equal count
InsertBeforeEqual(out, rec) ==
    LET n == Cardinality({i \in 1..Len(out) : out[i].count < rec.count})
    IN  SubSeq(out, 1, n) \o <<rec>> \o SubSeq(out, n + 1, Len(out))

\* sorted() is stable: rec goes behind every record whose count is not larger
InsertByCount(out, rec) ==
    LET n == Cardinality({i \in 1..Len(out) : out[i].count <= rec.count})
    IN  SubSeq(out, 1, n) \o <<rec>> \o SubSeq(out, n + 1, Len(out))

\* sorted(output, key=lambda x: x[1])
RECURSIVE SortedFrom(_, _, _)
SortedFrom(output, i, out) ==
    IF i > Len(output) THEN out
    ELSE SortedFrom(output, i + 1, InsertByCount(out, output[i]))

Sorted(output) == SortedFrom(output, 1, <<>>)

\* get_rarity(data, mapping, total); the caller handles total = 0
get_rarity(data, mapping, total) ==
    LET keys == CounterKeys(data)
    IN  Sorted([i \in 1..Len(keys) |-> Record(data, mapping, total, keys[i])])

\* value / total raises ZeroDivisionError for the first key
RaisesZeroDivision(data, total) == total = 0 /\ data # <<>>

\* the mapping after get_rarity has read mapping[key] for every key
MappingAfterRarity(data, mapping) ==
    MapTouch(mapping, {data[i] : i \in 1..Len(data)})

----------------------------------------------------------------------------
(* The environment of the pipeline                                         *)

\* the token identifiers the index may report
Ids == {11, 22, 33}

TheCatSat == <<"T", "h", "e", " ", "c", "a", "t", " ", "s", "a", "t", ".">>

TheDogSat == <<"t", "h", "e", " ", "d", "o", "g", " ", "s", "a", "t", ".">>

SatSat == <<"S", "a", "t", " ", "s", "a", "t", "!">>

\* the raw texts getString may return
RawTexts == {TheCatSat, TheDogSat, SatSat, <<>>}

\* a page of the index: any identifiers, up to one more than the limit asked
Pages(limit) == UNION {[1..n -> Ids] : n \in 0..(limit + 1)}

\* contract.functions.getString(token_id).call(): the text of a token is
\* fixed on the chain, so an identifier read before yields the same text; an
\* identifier not read yet may hold any text
GetString(token_id) ==
    IF token_id \in DOMAIN contract THEN {contract[token_id]} ELSE RawTexts

----------------------------------------------------------------------------
(* __main__                                                                *)

\* Exit that reports the failure and lets the program carry on
ReportOnly(cause) ==
    /\ pc' = pc
    /\ exit_cause' = cause

\* exit(), after the diagnostic was printed
Exit(cause) ==
    /\ pc' = "exited"
    /\ exit_cause' = cause

\* connect_to_contract: the ABI request succeeds
ConnectToContract ==
    /\ pc = "connect"
    /\ pc' = "enumerate"
    /\ UNCHANGED <<MAX_SUPPLY, LIMIT, contract, offset, claimed, requests, response,
                   query_progress_count, fetched, output_words,
                   output_total_word_counts, output_complete_texts,
                   output_word_to_token_id, output_total_word_count_to_token_id,
                   output_complete_text_to_token_id, words_total, rarity_words,
                   rarity_counts, rarity_texts, files, exit_cause>>
    /\ UNCHANGED <<tokVars, rarVars>>

\* connect_to_contract: send_request catches one of the four kinds of
\* request error and calls exit()
ConnectFails ==
    /\ pc = "connect"
    /\ Exit("send_request")
    /\ UNCHANGED <<MAX_SUPPLY, LIMIT, contract, offset, claimed, requests, response,
                   query_progress_count, fetched, output_words,
                   output_total_word_counts, output_complete_texts,
                   output_word_to_token_id, output_total_word_count_to_token_id,
                   output_complete_text_to_token_id, words_total, rarity_words,
                   rarity_counts, rarity_texts, files>>
    /\ UNCHANGED <<tokVars, rarVars>>

\* LoopCondition that forgets the page size
LoopConditionNoLimit(o) == o <= MAX_SUPPLY

\* while offset <= (MAX_SUPPLY - LIMIT)
LoopCondition(o) == o <= (MAX_SUPPLY - LIMIT)

\* offset += LIMIT
NextOffset(o) == o + LIMIT

\* get_claimed_token_ids: one iteration of the loop, the request succeeds
GetPage ==
    /\ pc = "enumerate"
    /\ LoopCondition(offset)
    /\ \E page \in Pages(LIMIT) :
           /\ claimed' = claimed \o page
           /\ response' = page
    /\ requests' = Append(requests, offset)
    /\ offset' = NextOffset(offset)
    /\ UNCHANGED <<pc, MAX_SUPPLY, LIMIT, contract,
                   query_progress_count, fetched, output_words,
                   output_total_word_counts, output_complete_texts,
                   output_word_to_token_id, output_total_word_count_to_token_id,
                   output_complete_text_to_token_id, words_total, rarity_words,
                   rarity_counts, rarity_texts, files, exit_cause>>
    /\ UNCHANGED <<tokVars, rarVars>>

\* get_claimed_token_ids: send_request catches one of the four kinds of
\* request error and calls exit()
GetPageFails ==
    /\ pc = "enumerate"
    /\ LoopCondition(offset)
    /\ requests' = Append(requests, offset)
    /\ Exit("send_request")
    /\ UNCHANGED <<MAX_SUPPLY, LIMIT, contract, offset, claimed, response,
                   query_progress_count, fetched, output_words,
                   output_total_word_counts, output_complete_texts,
                   output_word_to_token_id, output_total_word_count_to_token_id,
                   output_complete_text_to_token_id, words_total, rarity_words,
                   rarity_counts, rarity_texts, files>>
    /\ UNCHANGED <<tokVars, rarVars>>

\* get_claimed_token_ids: the loop ends, return claimed
ReturnClaimed ==
    /\ pc = "enumerate"
    /\ ~LoopCondition(offset)
    /\ response' = <<>>
    /\ pc' = "sanity"
    /\ UNCHANGED <<MAX_SUPPLY, LIMIT, contract, offset, claimed, requests,
                   query_progress_count, fetched, output_words,
                   output_total_word_counts, output_complete_texts,
                   output_word_to_token_id, output_total_word_count_to_token_id,
                   output_complete_text_to_token_id, words_total, rarity_words,
                   rarity_counts, rarity_texts, files, exit_cause>>
    /\ UNCHANGED <<tokVars, rarVars>>

\* SanityFails that accepts too many identifiers
SanityFailsIfFewer(ids) == Len(ids) < MAX_SUPPLY

\* if len(claimed_token_ids) != MAX_SUPPLY
SanityFails(ids) == Len(ids) # MAX_SUPPLY

\* the sanity check of __main__
SanityCheck ==
    /\ pc = "sanity"
    /\ IF SanityFails(claimed)
       THEN Exit("sanity check")
       ELSE pc' = "organize" /\ UNCHANGED exit_cause
    /\ UNCHANGED <<MAX_SUPPLY, LIMIT, contract, offset, claimed, requests, response,
                   query_progress_count, fetched, output_words,
                   output_total_word_counts, output_complete_texts,
                   output_word_to_token_id, output_total_word_count_to_token_id,
                   output_complete_text_to_token_id, words_total, rarity_words,
                   rarity_counts, rarity_texts, files>>
    /\ UNCHANGED <<tokVars, rarVars>>

\* text = text.lower(); text = text[:len(text) - 1]
Normalize(raw) == DropLast(Lower(raw))

\* AppendWords that appends the identifier once per distinct word
RECURSIVE AppendWordsDistinct(_, _, _, _)
AppendWordsDistinct(mapping, text, i, token_id) ==
    IF i > Len(text) THEN mapping
    ELSE IF \E j \in 1..(i - 1) : text[j] = text[i]
         THEN AppendWordsDistinct(mapping, text, i + 1, token_id)
         ELSE AppendWordsDistinct(MapAppend(mapping, text[i], token_id),
                                  text, i + 1, token_id)

\* for word in text: output_word_to_token_id[word].append(token_id)
RECURSIVE AppendWords(_, _, _, _)
AppendWords(mapping, text, i, token_id) ==
    IF i > Len(text) THEN mapping
    ELSE AppendWords(MapAppend(mapping, text[i], token_id), text, i + 1, token_id)

\* CurrentTokenId that walks the list from its end
CurrentTokenIdReversed == claimed[Len(claimed) - query_progress_count]

\* the token_id of this iteration of enumerate(claimed)
CurrentTokenId == claimed[query_progress_count + 1]

\* organize_text_data: one iteration of the loop, getString succeeds
FetchText ==
    /\ pc = "organize"
    /\ query_progress_count < Len(claimed)
    /\ \E raw \in GetString(CurrentTokenId) :
       LET token_id == CurrentTokenId
           text     == Normalize(raw)
           tokens   == Tokenize(text)
       IN  /\ contract' = [k \in DOMAIN contract \cup {token_id} |->
                               IF k = token_id THEN raw ELSE contract[k]]
           /\ fetched' = Append(fetched, token_id)
           /\ output_complete_texts' = Append(output_complete_texts, text)
           /\ output_complete_text_to_token_id' =
                  MapAppend(output_complete_text_to_token_id, text, token_id)
           /\ output_words' = Append(output_words, tokens)
           /\ output_total_word_counts' =
                  Append(output_total_word_counts, Len(tokens))
           /\ output_word_to_token_id' =
                  AppendWords(output_word_to_token_id, tokens, 1, token_id)
           /\ output_total_word_count_to_token_id' =
                  MapAppend(output_total_word_count_to_token_id, Len(tokens), token_id)
    /\ query_progress_count' = query_progress_count + 1
    /\ UNCHANGED <<pc, MAX_SUPPLY, LIMIT, offset, claimed, requests, response,
                   words_total, rarity_words, rarity_counts, rarity_texts,
                   files, exit_cause>>
    /\ UNCHANGED <<tokVars, rarVars>>

\* organize_text_data: getString raises; SolidityError is caught and exit()
\* called, any other exception is not caught and ends the process as well
FetchTextFails ==
    /\ pc = "organize"
    /\ query_progress_count < Len(claimed)
    /\ fetched' = Append(fetched, CurrentTokenId)
    /\ Exit("getString")
    /\ UNCHANGED <<MAX_SUPPLY, LIMIT, contract, offset, claimed, requests, response,
                   query_progress_count, output_words,
                   output_total_word_counts, output_complete_texts,
                   output_word_to_token_id, output_total_word_count_to_token_id,
                   output_complete_text_to_token_id, words_total, rarity_words,
                   rarity_counts, rarity_texts, files>>
    /\ UNCHANGED <<tokVars, rarVars>>

\* Flatten that leaves out the first list
FlattenSkipsFirst(lists) ==
    LET RECURSIVE F(_)
        F(l) == IF l = <<>> THEN <<>> ELSE Head(l) \o F(Tail(l))
    IN  IF lists = <<>> THEN <<>> ELSE F(Tail(lists))

\* [item for sub in output_words for item in sub]
RECURSIVE Flatten(_)
Flatten(lists) == IF lists = <<>> THEN <<>> ELSE Head(lists) \o Flatten(Tail(lists))

\* organize_text_data: the loop ends, flatten and return
OrganizeReturn ==
    /\ pc = "organize"
    /\ query_progress_count = Len(claimed)
    /\ output_words' = Flatten(output_words)
    /\ pc' = "stats"
    /\ UNCHANGED <<MAX_SUPPLY, LIMIT, contract, offset, claimed, requests, response,
                   query_progress_count, fetched,
                   output_total_word_counts, output_complete_texts,
                   output_word_to_token_id, output_total_word_count_to_token_id,
                   output_complete_text_to_token_id, words_total, rarity_words,
                   rarity_counts, rarity_texts, files, exit_cause>>
    /\ UNCHANGED <<tokVars, rarVars>>

\* the statistics and the histograms of __main__; they change no state
PrintStatistics ==
    /\ pc = "stats"
    /\ pc' = "rarity"
    /\ UNCHANGED <<MAX_SUPPLY, LIMIT, contract, offset, claimed, requests, response,
                   query_progress_count, fetched, output_words,
                   output_total_word_counts, output_complete_texts,
                   output_word_to_token_id, output_total_word_count_to_token_id,
                   output_complete_text_to_token_id, words_total, rarity_words,
                   rarity_counts, rarity_texts, files, exit_cause>>
    /\ UNCHANGED <<tokVars, rarVars>>

\* stats.mode(word_data)[0][0] on an empty word list: whether it raises
\* depends on the library, so both outcomes are possible
StatisticsFail ==
    /\ pc = "stats"
    /\ output_words = <<>>
    /\ Exit("statistics")
    /\ UNCHANGED <<MAX_SUPPLY, LIMIT, contract, offset, claimed, requests, response,
                   query_progress_count, fetched, output_words,
                   output_total_word_counts, output_complete_texts,
                   output_word_to_token_id, output_total_word_count_to_token_id,
                   output_complete_text_to_token_id, words_total, rarity_words,
                   rarity_counts, rarity_texts, files>>
    /\ UNCHANGED <<tokVars, rarVars>>

\* the three calls of get_rarity in __main__
ComputeRarity ==
    /\ pc = "rarity"
    /\ words_total' = Len(output_words)
    /\ rarity_words' =
           get_rarity(output_words, output_word_to_token_id, Len(output_words))
    /\ rarity_counts' =
           get_rarity(output_total_word_counts,
                      output_total_word_count_to_token_id, MAX_SUPPLY)
    /\ rarity_texts' =
           get_rarity(output_complete_texts,
                      output_complete_text_to_token_id, MAX_SUPPLY)
    /\ output_word_to_token_id' =
           MappingAfterRarity(output_words, output_word_to_token_id)
    /\ output_total_word_count_to_token_id' =
           MappingAfterRarity(output_total_word_counts,
                              output_total_word_count_to_token_id)
    /\ output_complete_text_to_token_id' =
           MappingAfterRarity(output_complete_texts,
                              output_complete_text_to_token_id)
    /\ pc' = "write"
    /\ UNCHANGED <<MAX_SUPPLY, LIMIT, contract, offset, claimed, requests, response,
                   query_progress_count, fetched, output_words,
                   output_total_word_counts, output_complete_texts,
                   files, exit_cause>>
    /\ UNCHANGED <<tokVars, rarVars>>

\* the three calls of write_to_file, in the order of __main__
Filenames == <<"words.txt", "total_word_counts.txt", "complete_texts.txt">>

\* write_to_file: the next output file is written
WriteToFile ==
    /\ pc = "write"
    /\ files' = Append(files, Filenames[Len(files) + 1])
    /\ pc' = IF Len(files') = Len(Filenames) THEN "done" ELSE "write"
    /\ UNCHANGED <<MAX_SUPPLY, LIMIT, contract, offset, claimed, requests, response,
                   query_progress_count, fetched, output_words,
                   output_total_word_counts, output_complete_texts,
                   output_word_to_token_id, output_total_word_count_to_token_id,
                   output_complete_text_to_token_id, words_total, rarity_words,
                   rarity_counts, rarity_texts, exit_cause>>
    /\ UNCHANGED <<tokVars, rarVars>>

TokIdle ==
    /\ tok_pc = "idle"
    /\ tok_text = <<>>
    /\ tok_out = <<>>

RarIdle ==
    /\ rar_pc = "idle"
    /\ rar_data = <<>>
    /\ rar_mapping = EmptyMap
    /\ rar_total = 0
    /\ rar_out = <<>>

PipeFresh ==
    /\ contract = EmptyMap
    /\ offset = 0
    /\ claimed = <<>>
    /\ requests = <<>>
    /\ response = <<>>
    /\ query_progress_count = 0
    /\ fetched = <<>>
    /\ output_words = <<>>
    /\ output_total_word_counts = <<>>
    /\ output_complete_texts = <<>>
    /\ output_word_to_token_id = EmptyMap
    /\ output_total_word_count_to_token_id = EmptyMap
    /\ output_complete_text_to_token_id = EmptyMap
    /\ words_total = 0
    /\ rarity_words = <<>>
    /\ rarity_counts = <<>>
    /\ rarity_texts = <<>>
    /\ files = <<>>
    /\ exit_cause = ""

PipeIdle ==
    /\ pc = "idle"
    /\ MAX_SUPPLY = 1
    /\ LIMIT = 1
    /\ PipeFresh

\* The state when __main__ starts; the configuration is fixed for the run.
Init ==
    /\ pc = "connect"
    /\ MAX_SUPPLY \in 1..MaxSupply
    /\ LIMIT \in 1..MaxLimit
    /\ PipeFresh
    /\ TokIdle
    /\ RarIdle

Next ==
    \/ ConnectToContract
    \/ ConnectFails
    \/ GetPage
    \/ GetPageFails
    \/ ReturnClaimed
    \/ SanityCheck
    \/ FetchText
    \/ FetchTextFails
    \/ OrganizeReturn
    \/ PrintStatistics
    \/ StatisticsFail
    \/ ComputeRarity
    \/ WriteToFile

Spec == Init /\ [][Next]_vars

----------------------------------------------------------------------------
(* The tokenizer applied to arbitrary short texts                          *)

\* characters on both sides of every boundary of the class
TokChars == {"a", "B", "1", "$", "%", "&", "+", ",", "-", ".", "/", "!", " "}

\* the text of the documented example
TokExample == <<"a", "b", "-", "1", "2", ".", "3", "%", "!", "!", "x">>

TokTexts == UNION {[1..n -> TokChars] : n \in 0..MaxTokLen} \cup {TokExample}

InitTok ==
    /\ PipeIdle
    /\ RarIdle
    /\ tok_pc = "ready"
    /\ tok_text \in TokTexts
    /\ tok_out = <<>>

\* lines 204-208 of organize_text_data applied to tok_text
TokenizeText ==
    /\ tok_pc = "ready"
    /\ tok_out' = Tokenize(tok_text)
    /\ tok_pc' = "done"
    /\ UNCHANGED <<tok_text, pipeVars, rarVars>>

NextTok == TokenizeText

SpecTok == InitTok /\ [][NextTok]_vars

----------------------------------------------------------------------------
(* get_rarity applied to arbitrary short data                              *)

RarKeys == {Normalize(TheCatSat), Normalize(TheDogSat), Normalize(SatSat)}

RarData == UNION {[1..n -> RarKeys] : n \in 0..MaxData}

\* mappings with every key, with some keys and with no key
RarMappings ==
    {EmptyMap,
     [k \in RarKeys |-> <<11, 22>>],
     [k \in {Normalize(TheCatSat)} |-> <<33>>]}

InitRarity ==
    /\ PipeIdle
    /\ TokIdle
    /\ rar_pc = "ready"
    /\ rar_data \in RarData
    /\ rar_mapping \in RarMappings
    /\ rar_total \in 0..MaxTotal
    /\ rar_out = <<>>

\* get_rarity returns
GetRarity ==
    /\ rar_pc = "ready"
    /\ ~RaisesZeroDivision(rar_data, rar_total)
    /\ rar_out' = get_rarity(rar_data, rar_mapping, rar_total)
    /\ rar_mapping' = MappingAfterRarity(rar_data, rar_mapping)
    /\ rar_pc' = "done"
    /\ UNCHANGED <<rar_data, rar_total, pipeVars, tokVars>>

\* get_rarity raises ZeroDivisionError in its first loop
GetRarityRaises ==
    /\ rar_pc = "ready"
    /\ RaisesZeroDivision(rar_data, rar_total)
    /\ rar_pc' = "raised"
    /\ UNCHANGED <<rar_data, rar_mapping, rar_total, rar_out, pipeVars, tokVars>>

NextRarity ==
    \/ GetRarity
    \/ GetRarityRaises

SpecRarity == InitRarity /\ [][NextRarity]_vars

----------------------------------------------------------------------------
(* Properties of the tokenizer                                             *)

IsAlnum(c) ==
    \/ Ord(c) >= Ord("0") /\ Ord(c) <= Ord("9")
    \/ Ord(c) >= Ord("a") /\ Ord(c) <= Ord("z")
    \/ Ord(c) >= Ord("A") /\ Ord(c) <= Ord("Z")

\* the characters the documentation of REGEX says are kept
DocumentedKept(c) == IsAlnum(c) \/ c \in {"%", "-", "."}

\* C1: every token the tokenizer returns is non-empty and consists only of
\* alphanumerics, '%', '-' and '.' (no other punctuation character occurs
\* in a token), and 'ab-12.3%!!x' yields ['ab-12.3%', 'x'].
C1_TokensOnlyDocumentedChars ==
    tok_pc = "done" =>
        /\ \A i \in 1..Len(tok_out) :
               /\ tok_out[i] # <<>>
               /\ \A j \in 1..Len(tok_out[i]) : DocumentedKept(tok_out[i][j])
        /\ tok_text = TokExample =>
               tok_out = << <<"a", "b", "-", "1", "2", ".", "3", "%">>, <<"x">> >>

----------------------------------------------------------------------------
(* Properties of get_claimed_token_ids and of the sanity check             *)

\* the main program has got past the sanity check
PastSanity == pc \in {"organize", "stats", "rarity", "write", "done"}

\* organize_text_data has returned
Organized == pc \in {"stats", "rarity", "write", "done"}

\* the three calls of get_rarity have returned
RarityComputed == pc \in {"write", "done"}

\* get_claimed_token_ids has returned
Enumerated ==
    pc = "sanity" \/ PastSanity \/ (pc = "exited" /\ exit_cause # "send_request")

C2_Invariant ==
    \* the k-th request is at offset (k-1)*LIMIT, which is <= MAX_SUPPLY - LIMIT
    /\ \A k \in 1..Len(requests) :
           /\ requests[k] = (k - 1) * LIMIT
           /\ requests[k] <= MAX_SUPPLY - LIMIT
    \* after the return, the next offset is the first one beyond the bound
    /\ Enumerated => Len(requests) * LIMIT > MAX_SUPPLY - LIMIT
    \* universe size 3, page size 2: only offset 0 is requested
    /\ (MAX_SUPPLY = 3 /\ LIMIT = 2) => (requests = <<>> \/ requests = <<0>>)
    \* text fetching is reached only with exactly MAX_SUPPLY identifiers
    /\ (PastSanity \/ fetched # <<>>) => Len(claimed) = MAX_SUPPLY

C2_Step ==
    \* a request is sent only when the previous page has been appended, and
    \* its page is appended whole, in response order, behind the earlier pages
    /\ requests' # requests =>
           /\ requests' = Append(requests, offset)
           /\ pc' # "exited" => claimed' = claimed \o response'
           /\ pc' = "exited" => claimed' = claimed
    /\ requests' = requests => claimed' = claimed

\* C2: page requests are sent at offsets 0, LIMIT, 2*LIMIT, ... in
\* increasing order, one at a time, each at an offset <= MAX_SUPPLY - LIMIT;
\* the enumeration stops as soon as the offset exceeds MAX_SUPPLY - LIMIT and
\* returns the pages concatenated in request order and response order; with
\* universe size 3 and page size 2 only offset 0 is requested, and text
\* fetching starts only if exactly MAX_SUPPLY identifiers were returned.
C2_PageRequests == []C2_Invariant /\ [][C2_Step]_vars

\* C2 witness: universe 3, page size 2, one request at offset 0 returned
\* three identifiers and text fetching has started.
C2_Witness ==
    /\ MAX_SUPPLY = 3
    /\ LIMIT = 2
    /\ requests = <<0>>
    /\ Len(claimed) = 3
    /\ fetched # <<>>

----------------------------------------------------------------------------
(* Fail-fast                                                               *)

C3_Invariant ==
    \* a failure has been reported exactly when the process has terminated
    /\ exit_cause # "" <=> pc = "exited"
    \* no rarity computation and no output file after a failure
    /\ pc = "exited" =>
           /\ files = <<>>
           /\ rarity_words = <<>> /\ rarity_counts = <<>> /\ rarity_texts = <<>>
    \* a failed request or count mismatch comes before any text fetch
    /\ exit_cause \in {"send_request", "sanity check"} => fetched = <<>>
    \* a count mismatch is the only reason for the sanity exit
    /\ exit_cause = "sanity check" => Len(claimed) # MAX_SUPPLY
    \* the failed text fetch is the last one and was not processed
    /\ exit_cause = "getString" =>
           Len(fetched) = Len(output_complete_texts) + 1

\* after a failure nothing happens any more: no retry, no later stage
C3_Step == exit_cause # "" => UNCHANGED vars

\* C3: when a page request fails, a text fetch fails or the identifier count
\* differs from MAX_SUPPLY, the process terminates there: the failed call is
\* not retried, no later stage runs, none of the output files is written,
\* and on a count mismatch no text fetch is issued.
C3_FailFast == []C3_Invariant /\ [][C3_Step]_vars

\* C3 witness: the second text fetch failed and the process has terminated.
C3_Witness ==
    /\ pc = "exited"
    /\ exit_cause = "getString"
    /\ Len(fetched) = 2
    /\ Len(output_complete_texts) = 1

----------------------------------------------------------------------------
(* Properties of get_rarity                                                *)

\* the set of the elements of a sequence
Range(seq) == {seq[i] : i \in 1..Len(seq)}

\* the number of entries of data equal to key
Occurrences(data, key) == Cardinality({i \in 1..Len(data) : data[i] = key})

IsDigit(c) == c \in {"0", "1", "2", "3", "4", "5", "6", "7", "8", "9"}

DigitValue(c) == CHOOSE d \in 0..9 : Digit(d) = c

\* the number a sequence of decimal digits denotes
RECURSIVE DigitsValue(_)
DigitsValue(ds) ==
    IF ds = <<>> THEN 0
    ELSE 10 * DigitsValue(SubSeq(ds, 1, Len(ds) - 1)) + DigitValue(ds[Len(ds)])

\* text is the text Python prints for a float with at most two decimals:
\* digits, a point, one or two digits, no trailing 0 in the second decimal
\* and no leading 0 before a further digit
IsFloatText(text) ==
    \E p \in 2..(Len(text) - 1) :
        /\ text[p] = "."
        /\ \A i \in (1..Len(text)) \ {p} : IsDigit(text[i])
        /\ Len(text) - p \in {1, 2}
        /\ Len(text) - p = 2 => text[Len(text)] # "0"
        /\ p > 2 => text[1] # "0"

\* the number of hundredths a float text denotes
Hundredths(text) ==
    LET p == CHOOSE i \in 1..Len(text) : text[i] = "."
        frac == SubSeq(text, p + 1, Len(text))
    IN  100 * DigitsValue(SubSeq(text, 1, p - 1)) +
        (IF Len(frac) = 1 THEN 10 * DigitsValue(frac) ELSE DigitsValue(frac))

\* text is count / total * 100 rounded to the nearest hundredth, printed, '%'
IsPercentageOf(text, count, total) ==
    /\ Len(text) >= 4
    /\ text[Len(text)] = "%"
    /\ LET number == SubSeq(text, 1, Len(text) - 1)
       IN  /\ IsFloatText(number)
           /\ LET d == Hundredths(number) * total - count * 10000
              IN  2 * d <= total /\ 2 * d >= -total

SixtySix == <<"6", "6", ".", "6", "7", "%">>

\* C4: every record of get_rarity(data, mapping, total) has occurrenceCount
\* equal to the number of entries of data equal to its key and
\* rarityPercentage equal to the text of round(occurrenceCount / total * 100,
\* 2) followed by '%'; there is exactly one record per distinct key; for the
\* data 'the cat sat', 'the dog sat', 'the cat sat' and total 3 the record
\* of 'the cat sat' has occurrenceCount 2 and rarityPercentage '66.67%'.
C4_RarityRecords ==
    rar_pc = "done" =>
        /\ \A i \in 1..Len(rar_out) :
               /\ rar_out[i].count = Occurrences(rar_data, rar_out[i].key)
               /\ IsPercentageOf(rar_out[i].rarity, rar_out[i].count, rar_total)
        /\ {rar_out[i].key : i \in 1..Len(rar_out)} = Range(rar_data)
        /\ Len(rar_out) = Cardinality(Range(rar_data))
        /\ (/\ rar_data = <<Normalize(TheCatSat), Normalize(TheDogSat), Normalize(TheCatSat)>>
            /\ rar_total = 3) =>
               \E i \in 1..Len(rar_out) :
                   /\ rar_out[i].key = Normalize(TheCatSat)
                   /\ rar_out[i].count = 2
                   /\ rar_out[i].rarity = SixtySix

\* C4 witness: get_rarity has returned for the three texts with total 3.
C4_Witness ==
    /\ rar_pc = "done"
    /\ rar_data = <<Normalize(TheCatSat), Normalize(TheDogSat), Normalize(TheCatSat)>>
    /\ rar_total = 3
    /\ Len(rar_out) = 2

\* the index of the first entry of data equal to key
FirstIndex(data, key) ==
    CHOOSE i \in 1..Len(data) : data[i] = key /\ \A j \in 1..(i - 1) : data[j] # key

\* C9: the records get_rarity returns are in ascending order of
\* occurrenceCount, and records with equal occurrenceCount are in the order
\* in which their keys first occur in data.
C9_SortedStable ==
    rar_pc = "done" =>
        \A i, j \in 1..Len(rar_out) :
            i < j =>
                /\ rar_out[i].count <= rar_out[j].count
                /\ rar_out[i].count = rar_out[j].count =>
                       FirstIndex(rar_data, rar_out[i].key) <
                       FirstIndex(rar_data, rar_out[j].key)

\* C9 witness: three records, the first key of data is the most frequent and
\* comes last, the two others tie.
C9_Witness ==
    /\ rar_pc = "done"
    /\ Len(rar_out) = 3
    /\ rar_out[1].count = rar_out[2].count
    /\ rar_out[2].count < rar_out[3].count
    /\ rar_out[3].key = rar_data[1]

----------------------------------------------------------------------------
(* Properties of organize_text_data and of the rarity outputs              *)

\* the sum of occurrenceCount over a record sequence
RECURSIVE SumCounts(_)
SumCounts(records) ==
    IF records = <<>> THEN 0 ELSE Head(records).count + SumCounts(Tail(records))

\* C5: once the rarity computation is reached, in each of the three record
\* sequences the occurrenceCounts add up to the total passed as denominator:
\* len(allWords) for the words, MAX_SUPPLY for word counts and texts.
C5_CountsSumToTotal ==
    RarityComputed =>
        /\ words_total = Len(output_words)
        /\ SumCounts(rarity_words) = words_total
        /\ SumCounts(rarity_counts) = MAX_SUPPLY
        /\ SumCounts(rarity_texts) = MAX_SUPPLY

\* C5 witness: the rarity computation has run for three texts, two of them
\* different, with several words.
C5_Witness ==
    /\ RarityComputed
    /\ MAX_SUPPLY = 3
    /\ Len(rarity_texts) = 2
    /\ Len(rarity_words) >= 3

\* the token sequence of the text of the i-th enumerated identifier
TokensOf(i) ==
    DropEmpty(Split(ReSub(DropLast(Lower(contract[claimed[i]])))))

\* the concatenation F(i) \o ... \o F(n)
RECURSIVE ConcatAll(_, _, _)
ConcatAll(F(_), i, n) == IF i > n THEN <<>> ELSE F(i) \o ConcatAll(F, i + 1, n)

\* the identifier of text i, once per occurrence of word in its tokens
IdPerOccurrence(word, i) ==
    [k \in 1..Occurrences(TokensOf(i), word) |-> claimed[i]]

\* the identifiers word must be mapped to
ExpectedIds(word) ==
    LET F(i) == IdPerOccurrence(word, i) IN ConcatAll(F, 1, Len(claimed))

The == <<"t", "h", "e">>

TheCatSatText == <<"t", "h", "e", " ", "c", "a", "t", " ", "s", "a", "t">>

\* C6: after organize_text_data, wordToIds[w] lists the identifiers in
\* enumeration order, each as often as w occurs in its token sequence (no
\* de-duplication), and allWords is the concatenation of the token sequences
\* in enumeration order; for 'the cat sat', 'the dog sat', 'the cat sat'
\* under id0, id1, id2: 9 tokens, wordToIds['the'] = [id0, id1, id2] and
\* textToIds['the cat sat'] = [id0, id2].
C6_WordMapping ==
    Organized =>
        /\ output_words = ConcatAll(TokensOf, 1, Len(claimed))
        /\ DOMAIN output_word_to_token_id = Range(output_words)
        /\ \A w \in DOMAIN output_word_to_token_id :
               output_word_to_token_id[w] = ExpectedIds(w)
        /\ (/\ claimed = <<11, 22, 33>>
            /\ contract[11] = TheCatSat
            /\ contract[22] = TheDogSat
            /\ contract[33] = TheCatSat) =>
               /\ Len(output_words) = 9
               /\ output_word_to_token_id[The] = <<11, 22, 33>>
               /\ output_complete_text_to_token_id[TheCatSatText] = <<11, 33>>

\* C6 witness: organize_text_data has returned for the three texts of the
\* scenario.
C6_Witness ==
    /\ pc = "stats"
    /\ claimed = <<11, 22, 33>>
    /\ contract[11] = TheCatSat
    /\ contract[22] = TheDogSat
    /\ contract[33] = TheCatSat

\* the keys of mapping whose list holds id
KeysOf(mapping, id) == {k \in DOMAIN mapping : id \in Range(mapping[k])}

\* C7: after organize_text_data every claimed identifier is in the list of
\* exactly one key of wordCountToIds, the token count of its text, and of
\* exactly one key of textToIds, its normalized text, and no other
\* identifier is in any list of the two mappings.
C7_OneKeyPerIdentifier ==
    Organized =>
        /\ \A i \in 1..Len(claimed) :
               /\ KeysOf(output_total_word_count_to_token_id, claimed[i]) =
                      {Len(TokensOf(i))}
               /\ KeysOf(output_complete_text_to_token_id, claimed[i]) =
                      {DropLast(Lower(contract[claimed[i]]))}
        /\ \A k \in DOMAIN output_total_word_count_to_token_id :
               Range(output_total_word_count_to_token_id[k]) \subseteq Range(claimed)
        /\ \A k \in DOMAIN output_complete_text_to_token_id :
               Range(output_complete_text_to_token_id[k]) \subseteq Range(claimed)

\* C7 witness: organize_text_data has returned, both mappings have two
\* keys, one identifier was enumerated twice and one not at all.
C7_Witness ==
    /\ Organized
    /\ Len(claimed) = 3
    /\ claimed[1] = claimed[3]
    /\ claimed[1] # claimed[2]
    /\ Cardinality(DOMAIN output_total_word_count_to_token_id) = 2
    /\ Cardinality(DOMAIN output_complete_text_to_token_id) = 2

\* C8: the text fetcher is called once per entry of the claimed list, in
\* enumeration order and one at a time, the k-th fetch only after the
\* (k-1)-th was processed; allWordCounts has one entry per identifier and
\* its i-th entry is the token count of the i-th identifier's text.
C8_FetchOrder ==
    /\ Len(fetched) <= Len(claimed)
    /\ \A k \in 1..Len(fetched) : fetched[k] = claimed[k]
    /\ pc = "organize" =>
           /\ Len(fetched) = query_progress_count
           /\ Len(output_total_word_counts) = Len(fetched)
    /\ Organized =>
           /\ fetched = claimed
           /\ Len(output_total_word_counts) = Len(claimed)
           /\ \A i \in 1..Len(claimed) :
                  output_total_word_counts[i] = Len(TokensOf(i))

\* C8 witness: three different identifiers were fetched, not in ascending
\* order, their texts have different token counts, and the loop has ended.
C8_Witness ==
    /\ Organized
    /\ Len(fetched) = 3
    /\ fetched[1] > fetched[2]
    /\ fetched[2] # fetched[3]
    /\ output_total_word_counts[1] # output_total_word_counts[2]

AllRecords == rarity_words \o rarity_counts \o rarity_texts

\* C10: once the rarity computation is reached, every record of the three
\* outputs has occurrenceCount equal to the length of its identifier list,
\* and every counted key was already in the mapping: no mapping holds an
\* empty list.
C10_CountMatchesIds ==
    RarityComputed =>
        /\ \A i \in 1..Len(AllRecords) :
               AllRecords[i].count = Len(AllRecords[i].ids)
        /\ \A k \in DOMAIN output_word_to_token_id :
               output_word_to_token_id[k] # <<>>
        /\ \A k \in DOMAIN output_total_word_count_to_token_id :
               output_total_word_count_to_token_id[k] # <<>>
        /\ \A k \in DOMAIN output_complete_text_to_token_id :
               output_complete_text_to_token_id[k] # <<>>

\* C10 witness: the rarity computation has run on a text in which a word
\* occurs twice, so a word record counts two for one identifier.
C10_Witness ==
    /\ RarityComputed
    /\ \E i \in 1..Len(rarity_words) :
           /\ rarity_words[i].count = 2
           /\ rarity_words[i].ids = <<22, 22>>

====
